---- MODULE Spec2Model ----
\* Model of polyglot's scoring and ranking core:
\*   src/max_heap.py  MaxHeap (push / pop over heapq, with the stored `top` field)
\*   src/main.py      feature_diff, compute_scores, print_scores
\* Two specifications share the variables:
\*   Spec      one run of compute_scores followed by print_scores
\*   HeapSpec  arbitrary sequences of MaxHeap.push / MaxHeap.pop on a fresh queue
EXTENDS Integers, Sequences, FiniteSets

VARIABLES
    items,       \* MaxHeap.items: the heapq list of (-score, name) tuples
    top,         \* MaxHeap.top
    ops,         \* log of the calls made on the MaxHeap and what each returned
    languages,   \* the `languages` dict, as its sequence of (name, features) items
    references,  \* the `references` list of compute_scores
    refs,        \* the `refs` argument of print_scores
    limit,       \* the `limit` argument of print_scores (NoLimit for None)
    pc,          \* position of the run
    i,           \* the counter `i` of print_scores
    printed      \* the names print_scores has printed, in order

vars == <<items, top, ops, languages, references, refs, limit, pc, i, printed>>

----------------------------------------------------------------------------
\* Bounds of the model

MaxCatalog == 3     \* entries in the catalog
MaxRefs == 2        \* length of the reference list
MaxLimit == 2       \* largest explicit limit
MaxPush == 3        \* pushes in a HeapSpec run
MaxScore == 1       \* largest score pushed in a HeapSpec run

\* Language names, listed in Python's string order.
NameOrder == <<"A", "B", "C">>

Names == {NameOrder[n] : n \in 1..Len(NameOrder)}

\* The feature sets a catalog entry may carry.
FeatureSets ==
    { {"functional", "generic"}, {"imperative", "systems"}, {"functional", "systems"} }

----------------------------------------------------------------------------
\* Python values

None == <<>>

\* `limit if (limit is not None) else 10`
DefaultLimit == 10

NoLimit == <<>>

EffectiveLimit(l) == IF l = NoLimit THEN DefaultLimit ELSE l[1]

\* str.__lt__ on the names
StrLess(a, b) ==
    \E m, n \in 1..Len(NameOrder) : NameOrder[m] = a /\ NameOrder[n] = b /\ m < n

\* tuple.__lt__ on (key, name) pairs: lexicographic
TupleLessKeyOnly(a, b) == a[1] < b[1]

TupleLess(a, b) == a[1] < b[1] \/ (a[1] = b[1] /\ StrLess(a[2], b[2]))

----------------------------------------------------------------------------
\* heapq (positions are 1-based here: the parent of pos is pos \div 2, its
\* children are 2*pos and 2*pos + 1)

RECURSIVE siftdownLoop(_, _, _, _)
siftdownLoop(heap, startpos, pos, newitem) ==
    IF pos > startpos /\ TupleLess(newitem, heap[pos \div 2])
    THEN siftdownLoop([heap EXCEPT ![pos] = heap[pos \div 2]], startpos, pos \div 2, newitem)
    ELSE [heap EXCEPT ![pos] = newitem]

siftdown(heap, startpos, pos) == siftdownLoop(heap, startpos, pos, heap[pos])

RECURSIVE siftupLoop(_, _, _, _)
siftupLoop(heap, startpos, pos, newitem) ==
    LET endpos == Len(heap)
        leftpos == 2 * pos
        rightpos == leftpos + 1
        childpos == IF rightpos <= endpos /\ ~TupleLess(heap[leftpos], heap[rightpos])
                    THEN rightpos ELSE leftpos
    IN  IF leftpos <= endpos
        THEN siftupLoop([heap EXCEPT ![pos] = heap[childpos]], startpos, childpos, newitem)
        ELSE siftdown([heap EXCEPT ![pos] = newitem], startpos, pos)

siftup(heap, pos) == siftupLoop(heap, pos, pos, heap[pos])

heappush(heap, item) == siftdown(Append(heap, item), 1, Len(heap) + 1)

\* heappop of a non-empty heap: the heap left and the item returned
heappop(heap) ==
    LET lastelt == heap[Len(heap)]
        rest == SubSeq(heap, 1, Len(heap) - 1)
    IN  IF rest # <<>>
        THEN [heap |-> siftup([rest EXCEPT ![1] = lastelt], 1), item |-> rest[1]]
        ELSE [heap |-> rest, item |-> lastelt]

----------------------------------------------------------------------------
\* MaxHeap, as functions of the object's fields

NewMaxHeap == [items |-> <<>>, top |-> None]

pushNoNegation(self, k, v) ==
    LET its == heappush(self.items, <<k, v>>)
    IN  [items |-> its, top |-> its[1]]

push(self, k, v) ==
    LET its == heappush(self.items, <<-k, v>>)
    IN  [items |-> its, top |-> its[1]]

\* pop: the object afterwards, whether IndexError was raised, and the value
\* returned. `self.top = self.items[0]` runs after heappop has removed the item,
\* so it raises IndexError when the item removed was the last one; `top` then
\* keeps its old value and nothing is returned.
pop(self) ==
    IF Len(self.items) > 0
    THEN LET h == heappop(self.items)
         IN  IF h.heap = <<>>
             THEN [self |-> [items |-> h.heap, top |-> self.top],
                   raised |-> TRUE, value |-> None]
             ELSE [self |-> [items |-> h.heap, top |-> h.heap[1]],
                   raised |-> FALSE, value |-> <<-(h.item[1]), h.item[2]>>]
    ELSE [self |-> self, raised |-> FALSE, value |-> None]

\* Entries of the call log
PushCall(k, v) == [op |-> "push", arg |-> <<k, v>>, raised |-> FALSE, value |-> None]

PopCall(r) == [op |-> "pop", arg |-> None, raised |-> r.raised, value |-> r.value]

----------------------------------------------------------------------------
\* main.py

feature_diff_one_sided(reference_set, other_set) == Cardinality(other_set \ reference_set)

feature_diff(reference_set, other_set) ==
    Cardinality((other_set \cup reference_set) \ (other_set \cap reference_set))

\* `lang in languages` and `languages[lang]` on the dict
HasKey(langs, name) == \E n \in 1..Len(langs) : langs[n][1] = name

Lookup(langs, name) == langs[CHOOSE n \in 1..Len(langs) : langs[n][1] = name][2]

\* the first loop of compute_scores: ref_features after the references
RECURSIVE RefFeaturesLoop(_, _, _)
RefFeaturesLoop(rs, langs, ref_features) ==
    IF rs = <<>> THEN ref_features
    ELSE RefFeaturesLoop(Tail(rs), langs,
                         IF HasKey(langs, Head(rs))
                         THEN ref_features \cup Lookup(langs, Head(rs))
                         ELSE ref_features)

RefFeaturesFirstOnly(rs, langs) ==
    IF rs # <<>> /\ HasKey(langs, Head(rs)) THEN Lookup(langs, Head(rs)) ELSE {}

RefFeatures(rs, langs) == RefFeaturesLoop(rs, langs, {})

\* the second loop of compute_scores: one push per item of the dict, in its order
RECURSIVE PushAll(_, _, _)
PushAll(res, langs, ref_features) ==
    IF langs = <<>> THEN res
    ELSE PushAll(push(res, feature_diff(ref_features, Head(langs)[2]), Head(langs)[1]),
                 Tail(langs), ref_features)

ComputeScores(rs, langs) == PushAll(NewMaxHeap, langs, RefFeatures(rs, langs))

\* the pushes compute_scores makes, for the call log
ScoreCalls(rs, langs) ==
    [n \in 1..Len(langs) |->
        PushCall(feature_diff(RefFeatures(rs, langs), langs[n][2]), langs[n][1])]

\* `if name in refs: continue`
NeverSkipped(name, rfs) == FALSE

Skipped(name, rfs) == name \in rfs

----------------------------------------------------------------------------
\* Inputs

SeqsUpTo(S, n) == UNION {[1..m -> S] : m \in 0..n}

Injective(s) == \A m, n \in 1..Len(s) : m # n => s[m] # s[n]

Catalogs ==
    { c \in SeqsUpTo(Names \X FeatureSets, MaxCatalog) :
        Injective([n \in 1..Len(c) |-> c[n][1]]) }

Limits == {NoLimit} \cup {<<n>> : n \in 0..MaxLimit}

----------------------------------------------------------------------------
\* Spec: scores = compute_scores(references, languages), then
\*       print_scores(scores, limit, refs)

Init ==
    /\ items = <<>>
    /\ top = None
    /\ ops = <<>>
    /\ languages \in Catalogs
    /\ references \in SeqsUpTo(Names, MaxRefs)
    /\ refs = {}
    /\ limit = NoLimit
    /\ pc = "compute_scores"
    /\ i = 0
    /\ printed = <<>>

compute_scores ==
    /\ pc = "compute_scores"
    /\ LET res == ComputeScores(references, languages)
       IN  /\ items' = res.items
           /\ top' = res.top
    /\ ops' = ScoreCalls(references, languages)
    /\ pc' = "scored"
    /\ UNCHANGED <<languages, references, refs, limit, i, printed>>

\* the call print_scores(scores, limit, refs), up to `i = 0`
print_scores_call ==
    /\ pc = "scored"
    /\ limit' \in Limits
    /\ refs' \in SUBSET Names
    /\ i' = 0
    /\ pc' = "print_scores"
    /\ UNCHANGED <<items, top, ops, languages, references, printed>>

\* one iteration of `while i < limit`
print_scores_iter ==
    /\ pc = "print_scores"
    /\ i < EffectiveLimit(limit)
    /\ LET r == pop([items |-> items, top |-> top])
       IN  /\ items' = r.self.items
           /\ top' = r.self.top
           /\ ops' = Append(ops, PopCall(r))
           /\ IF r.raised
              THEN /\ pc' = "raised"
                   /\ UNCHANGED <<i, printed>>
              ELSE IF r.value = None
              THEN /\ pc' = "done"
                   /\ UNCHANGED <<i, printed>>
              ELSE IF Skipped(r.value[2], refs)
              THEN UNCHANGED <<pc, i, printed>>
              ELSE /\ printed' = Append(printed, r.value[2])
                   /\ i' = i + 1
                   /\ pc' = pc
    /\ UNCHANGED <<languages, references, refs, limit>>

\* the loop condition fails
print_scores_exit ==
    /\ pc = "print_scores"
    /\ ~(i < EffectiveLimit(limit))
    /\ pc' = "done"
    /\ UNCHANGED <<items, top, ops, languages, references, refs, limit, i, printed>>

Next == compute_scores \/ print_scores_call \/ print_scores_iter \/ print_scores_exit

Spec == Init /\ [][Next]_vars

----------------------------------------------------------------------------
\* HeapSpec: any sequence of push and pop calls on a fresh MaxHeap

NumPushes == Cardinality({n \in 1..Len(ops) : ops[n].op = "push"})

NumPops == Cardinality({n \in 1..Len(ops) : ops[n].op = "pop"})

HeapInit ==
    /\ items = NewMaxHeap.items
    /\ top = NewMaxHeap.top
    /\ ops = <<>>
    /\ languages = <<>>
    /\ references = <<>>
    /\ refs = {}
    /\ limit = NoLimit
    /\ pc = "heap"
    /\ i = 0
    /\ printed = <<>>

HeapPush ==
    /\ pc = "heap"
    /\ NumPushes < MaxPush
    /\ \E k \in 0..MaxScore, v \in Names :
        LET s == push([items |-> items, top |-> top], k, v)
        IN  /\ items' = s.items
            /\ top' = s.top
            /\ ops' = Append(ops, PushCall(k, v))
    /\ UNCHANGED <<languages, references, refs, limit, pc, i, printed>>

HeapPop ==
    /\ pc = "heap"
    /\ NumPops <= MaxPush
    /\ LET r == pop([items |-> items, top |-> top])
       IN  /\ items' = r.self.items
           /\ top' = r.self.top
           /\ ops' = Append(ops, PopCall(r))
    /\ UNCHANGED <<languages, references, refs, limit, pc, i, printed>>

HeapNext == HeapPush \/ HeapPop

HeapSpec == HeapInit /\ [][HeapNext]_vars

----------------------------------------------------------------------------
\* Reading the call log

IsPush(c) == c.op = "push"

IsPop(c) == c.op = "pop"

\* a pop call that returned a (score, name) pair
ReturnedPair(c) == c.op = "pop" /\ ~c.raised /\ c.value # None

\* a pop call that returned None
ReturnedNone(c) == c.op = "pop" /\ ~c.raised /\ c.value = None

ReturnedPops == SelectSeq(ops, ReturnedPair)

Occurrences(s, x) == Cardinality({n \in 1..Len(s) : s[n] = x})

Range(s) == {s[n] : n \in 1..Len(s)}

Keys(langs) == {langs[n][1] : n \in 1..Len(langs)}

Min(a, b) == IF a < b THEN a ELSE b

SymDiff(a, b) == (a \ b) \cup (b \ a)

\* the reference profile: union of the feature sets of the references in the catalog
Profile(rs, langs) == UNION {Lookup(langs, r) : r \in Range(rs) \cap Keys(langs)}

----------------------------------------------------------------------------
\* C1 (HeapSpec): after k pushes on a fresh queue, the following k pops return
\* exactly the multiset of pushed (score, name) pairs, with the scores as
\* pushed, in non-increasing score order.
C1_PopsReturnAllPushed ==
    \A k \in 0..MaxPush :
        ( /\ Len(ops) = 2 * k
          /\ \A n \in 1..k : IsPush(ops[n])
          /\ \A n \in (k + 1)..(2 * k) : IsPop(ops[n]) )
        => /\ \A n \in (k + 1)..(2 * k) : ReturnedPair(ops[n])
           /\ \A n \in 1..k :
                Cardinality({m \in 1..k : ops[m].arg = ops[n].arg})
                  = Cardinality({m \in (k + 1)..(2 * k) : ops[m].value = ops[n].arg})
           /\ \A m, n \in (k + 1)..(2 * k) : m < n => ops[m].value[1] >= ops[n].value[1]

\* C2 (HeapSpec): pop is total: it never raises; on a non-empty queue it removes
\* and returns a stored pair with the largest score; on an empty queue it
\* returns None and leaves the queue unchanged.
C2_PopIsTotal ==
    [][ (pc = "heap" /\ Len(ops') = Len(ops) + 1 /\ IsPop(ops'[Len(ops')]))
        => LET c == ops'[Len(ops')]
           IN  /\ ~c.raised
               /\ IF items = <<>>
                  THEN c.value = None /\ items' = items /\ top' = top
                  ELSE /\ c.value # None
                       /\ \E n \in 1..Len(items) : items[n] = <<-(c.value[1]), c.value[2]>>
                       /\ \A n \in 1..Len(items) : -(items[n][1]) <= c.value[1]
                       /\ Len(items') = Len(items) - 1
                       /\ \A n \in 1..Len(items) :
                            Occurrences(items', items[n])
                              = Occurrences(items, items[n])
                                - (IF items[n] = <<-(c.value[1]), c.value[2]>> THEN 1 ELSE 0)
      ]_vars

\* C10 (HeapSpec): after any sequence of push and pop calls, `top` is None
\* exactly when the queue holds no items, and otherwise it is the root of
\* `items`, a stored item with the largest score.
C10_TopConsistent ==
    /\ (top = None) <=> (items = <<>>)
    /\ items # <<>> =>
        /\ top = items[1]
        /\ \A n \in 1..Len(items) : -(items[n][1]) <= -(top[1])

----------------------------------------------------------------------------
\* C3 (Spec): print_scores outputs at most n names, and when it has ended it
\* has ended normally with exactly min(n, |C| - |C \cap E|) names.
C3_OutputCount ==
    LET n == EffectiveLimit(limit)
        eligible == Cardinality(Keys(languages) \ refs)
    IN  /\ Len(printed) <= n
        /\ pc # "raised"
        /\ pc = "done" => Len(printed) = Min(n, eligible)

\* C4 (Spec): print_scores never outputs a name of refs; a popped name of refs
\* is skipped and does not count toward the limit.
C4_NeverPrintsExcluded ==
    /\ \A n \in 1..Len(printed) : printed[n] \notin refs
    /\ i = Len(printed)
    /\ i = Cardinality({n \in 1..Len(ReturnedPops) : ReturnedPops[n].value[2] \notin refs})

C4_Witness ==
    /\ \E n \in 1..Len(ReturnedPops) : ReturnedPops[n].value[2] \in refs
    /\ printed # <<>>
    /\ ReturnedPops[1].value[2] \in refs

\* C5 (Spec): the queue compute_scores returns holds exactly one (score, name)
\* pair per catalog entry and no others, with score = |features symmetric
\* difference profile|; compute_scores leaves the catalog and the reference
\* list unchanged.
C5_QueueHoldsOneScorePerEntry ==
    /\ [] ( pc = "scored"
            => /\ Len(items) = Len(languages)
               /\ \A n \in 1..Len(languages) :
                    Occurrences(items,
                        << -Cardinality(SymDiff(languages[n][2], Profile(references, languages))),
                           languages[n][1] >>) = 1
               /\ \A n \in 1..Len(items) : HasKey(languages, items[n][2]) )
    /\ [][languages' = languages /\ references' = references]_vars

C5_Witness ==
    /\ pc = "scored"
    /\ Len(languages) = MaxCatalog
    /\ Cardinality(Range(references) \cap Keys(languages)) > 1
    /\ \E n \in 1..Len(items) : items[n][1] = 0
    /\ \E n \in 1..Len(items) : items[n][1] < 0

----------------------------------------------------------------------------
\* the pushes of compute_scores, as logged
PushCalls == SelectSeq(ops, IsPush)

\* the returned pops whose name print_scores does not skip
AcceptedPair(c) == ReturnedPair(c) /\ c.value[2] \notin refs

AcceptedPops == SelectSeq(ops, AcceptedPair)

\* position of a name in the catalog's iteration order
CatalogPos(name) == CHOOSE n \in 1..Len(languages) : languages[n][1] = name

C7_DegenerateInputs ==
    LET n == EffectiveLimit(limit)
    IN  /\ (languages = <<>> \/ references = <<>> \/ n = 0) => pc # "raised"
        /\ (languages = <<>> /\ pc # "compute_scores") =>
             /\ PushCalls = <<>>
             /\ printed = <<>>
             /\ \A m \in 1..Len(ops) : ReturnedNone(ops[m])
        /\ (references = <<>> /\ pc # "compute_scores") =>
             \A m \in 1..Len(PushCalls) :
                PushCalls[m].arg = <<Cardinality(languages[m][2]), languages[m][1]>>
        /\ n = 0 => (printed = <<>> /\ \A m \in 1..Len(ops) : ~IsPop(ops[m]))

\* C8 (Spec): the queue compute_scores returns depends only on the set of
\* reference names that are catalog keys: any other reference list with the
\* same such set (names repeated, reordered, absent names added) gives the
\* same queue; with no reference in the catalog every score is the
\* candidate's feature-set size.
C8_DependsOnlyOnKnownReferenceSet ==
    pc = "scored"
    => /\ \A other \in SeqsUpTo(Names, MaxRefs + 1) :
            (Range(other) \cap Keys(languages) = Range(references) \cap Keys(languages))
            => /\ ComputeScores(other, languages).items = items
               /\ ComputeScores(other, languages).top = top
       /\ Range(references) \cap Keys(languages) = {} =>
            \A n \in 1..Len(languages) :
                Occurrences(items, << -Cardinality(languages[n][2]), languages[n][1] >>) = 1

C8_Witness ==
    /\ pc = "scored"
    /\ Len(references) = 2
    /\ ~HasKey(languages, references[1])
    /\ HasKey(languages, references[2])
    /\ \E n \in 1..Len(items) : items[n][1] = 0
    /\ \E n \in 1..Len(items) : items[n][1] < 0

\* C9 as claimed (Spec): candidates sharing a score are popped in the
\* catalog's iteration order.
C9_TiesInCatalogOrder ==
    \A a, b \in 1..Len(ReturnedPops) :
        (a < b /\ ReturnedPops[a].value[1] = ReturnedPops[b].value[1])
        => CatalogPos(ReturnedPops[a].value[2]) < CatalogPos(ReturnedPops[b].value[2])

\* C9 as amended (Spec): candidates sharing a score are popped in ascending
\* order of their names (the tuples (-score, name) are compared whole),
\* whatever the catalog's iteration order; a pair that is returned has the
\* smallest name among the stored pairs of its score.
C9_TiesInNameOrder ==
    /\ \A a, b \in 1..Len(ReturnedPops) :
         (a < b /\ ReturnedPops[a].value[1] = ReturnedPops[b].value[1])
         => StrLess(ReturnedPops[a].value[2], ReturnedPops[b].value[2])
    /\ ReturnedPops # <<>> =>
         LET last == ReturnedPops[Len(ReturnedPops)].value
         IN  \A n \in 1..Len(items) :
                items[n][1] = -(last[1]) => StrLess(last[2], items[n][2])

C9_Witness ==
    \E a, b \in 1..Len(ReturnedPops) :
        /\ a < b
        /\ ReturnedPops[a].value[1] = ReturnedPops[b].value[1]
        /\ CatalogPos(ReturnedPops[a].value[2]) > CatalogPos(ReturnedPops[b].value[2])

====
